---- MODULE Spec2Model ----
(***************************************************************************)
(* A model of the terminal text viewer of src/src/main.rs: the document    *)
(* store with its tab-expanded rows, the cursor controller (move_cursor,   *)
(* scroll, get_render_x), the page keys of process_keypress, the frame     *)
(* composed by refresh_screen / draw_rows, and the life of the process:    *)
(* main, its CleanUp guard and the ways it ends.                           *)
(*                                                                         *)
(* Strings are sequences of one-character strings.  The alphabet holds     *)
(* single-byte characters only, so str::len (bytes) and chars().count()    *)
(* agree, as they do for ASCII files.  Rows, columns and offsets are the   *)
(* 0-based usize values of the source; sequences are 1-based, so row `at`  *)
(* of the document is row_contents[at + 1].                                *)
(***************************************************************************)
EXTENDS Integers, Sequences, FiniteSets, TLC

\* const TAB_STOP: usize = 8
TAB_STOP == 8

\* Bounds of the model: documents of at most MaxLines lines of at most
\* MaxLineLen characters, terminals of 1..MaxScreenRows by 1..MaxScreenCols.
MaxLines == 2
MaxLineLen == 2
MaxScreenRows == 2
MaxScreenCols == 2
\* The widest terminal of the banner specification (the banner text has 30 characters).
MaxBannerCols == 34

TAB == "\t"
SPACE == " "
Alphabet == {"a", TAB}

Min(a, b) == IF a < b THEN a ELSE b

Spaces(n) == [k \in 1..n |-> SPACE]

SeqsUpTo(S, n) == UNION {[1..k -> S] : k \in 0..n}
\* What file_contents.lines() can yield (no argument, or an empty file: <<>>).
Files == SeqsUpTo(SeqsUpTo(Alphabet, MaxLineLen), MaxLines)
\* What size() can return, as (columns, rows).
WinSizes == (1..MaxScreenCols) \X (1..MaxScreenRows)
\* Terminals from no columns at all to wider than the banner.
BannerWinSizes == (0..MaxBannerCols) \X (1..MaxScreenRows)

Directions == {"Up", "Down", "Left", "Right", "Home", "End"}
Pages == {"PageUp", "PageDown"}

VARIABLES
    pc,                \* where main is: "main", "new", "refresh", "key"; the loop
                       \* has ended ("done"), an Err is being returned ("error"),
                       \* a panic is unwinding ("panic"); the process is gone ("exited")
    win_size,          \* Output.win_size = (columns, rows)
    row_contents,      \* EditorRows.row_contents: Vec<Row>
    cursor_controller, \* Output.cursor_controller
    frame,             \* the rows of the last frame flushed to stdout
    term_cursor,       \* the cursor::MoveTo(x, y) that ended the last frame
    last_key,          \* the key process_keypress handled since the last frame
    raw_mode,          \* the terminal is in raw mode
    clean_up,          \* main holds its CleanUp guard
    cleared,           \* the last thing written to the terminal was clear_screen
    exit_code          \* the exit status of the process, -1 while it runs

vars == <<pc, win_size, row_contents, cursor_controller, frame, term_cursor, last_key,
          raw_mode, clean_up, cleared, exit_code>>

editor_vars == <<win_size, row_contents, cursor_controller>>
process_vars == <<raw_mode, clean_up, exit_code>>

cursor_x == cursor_controller.cursor_x
cursor_y == cursor_controller.cursor_y
screen_columns == cursor_controller.screen_columns
screen_rows == cursor_controller.screen_rows
row_offset == cursor_controller.row_offset
column_offset == cursor_controller.column_offset
render_x == cursor_controller.render_x

(***************************************************************************)
(* EditorRows                                                              *)
(***************************************************************************)

\* The inner `while index % TAB_STOP != 0` loop of render_row.
RECURSIVE pad_tab(_)
pad_tab(st) ==
    IF st.index % TAB_STOP # 0
    THEN pad_tab([render |-> Append(st.render, SPACE), index |-> st.index + 1])
    ELSE st

\* Mutation of render_char: a tab always emits TAB_STOP spaces.
render_char_fixed_tab(st, c) ==
    IF c = TAB
    THEN [render |-> st.render \o Spaces(TAB_STOP), index |-> st.index + TAB_STOP]
    ELSE [render |-> Append(st.render, c), index |-> st.index + 1]

\* One step of the for_each closure of render_row, on character c.
render_char(st, c) ==
    LET index == st.index + 1 IN
    IF c = TAB
    THEN pad_tab([render |-> Append(st.render, SPACE), index |-> index])
    ELSE [render |-> Append(st.render, c), index |-> index]

\* row.row_content.chars().for_each(...): the closure folded over the characters.
RECURSIVE render_fold(_, _, _)
render_fold(row_content, i, st) ==
    IF i > Len(row_content) THEN st
    ELSE render_fold(row_content, i + 1, render_char(st, row_content[i]))

\* render_row: the rendered string and the final value of `index`.
render_row_state(row_content) ==
    render_fold(row_content, 1, [render |-> <<>>, index |-> 0])

render_row(row_content) == render_row_state(row_content).render

\* EditorRows::from_file: one Row per line, rendered at load.
from_file(lines) ==
    [i \in 1..Len(lines) |-> [row_content |-> lines[i], render |-> render_row(lines[i])]]

number_of_rows == Len(row_contents)
get_render(at) == row_contents[at + 1].render
get_editor_row(at) == row_contents[at + 1]

(***************************************************************************)
(* CursorController                                                        *)
(***************************************************************************)

CursorController_new(size) ==
    [cursor_x |-> 0, cursor_y |-> 0,
     screen_columns |-> size[1], screen_rows |-> size[2],
     row_offset |-> 0, column_offset |-> 0, render_x |-> 0]

saturating_sub(a, b) == IF a >= b THEN a - b ELSE 0

\* Mutation of move_up: the floor is taken one row too early.
move_up_stops_at_row_1(cc) ==
    IF cc.cursor_y > 1 THEN [cc EXCEPT !.cursor_y = cc.cursor_y - 1] ELSE cc

\* KeyCode::Up
move_up(cc) == [cc EXCEPT !.cursor_y = saturating_sub(cc.cursor_y, 1)]

\* Mutation of move_left: the wrap to the previous row leaves cursor_x at 0.
move_left_wrap_to_start(cc) ==
    IF cc.cursor_x # 0
    THEN [cc EXCEPT !.cursor_x = cc.cursor_x - 1]
    ELSE IF cc.cursor_y > 0
         THEN [cc EXCEPT !.cursor_y = cc.cursor_y - 1]
         ELSE cc

\* KeyCode::Left
move_left(cc) ==
    IF cc.cursor_x # 0
    THEN [cc EXCEPT !.cursor_x = cc.cursor_x - 1]
    ELSE IF cc.cursor_y > 0
         THEN [cc EXCEPT !.cursor_y = cc.cursor_y - 1,
                         !.cursor_x = Len(get_render(cc.cursor_y - 1))]
         ELSE cc

\* Mutation of move_down: no check against the number of rows.
move_down_unchecked(cc) == [cc EXCEPT !.cursor_y = cc.cursor_y + 1]

\* KeyCode::Down
move_down(cc) ==
    IF cc.cursor_y < number_of_rows
    THEN [cc EXCEPT !.cursor_y = cc.cursor_y + 1]
    ELSE cc

\* KeyCode::Right
move_right(cc) ==
    IF cc.cursor_y < number_of_rows
    THEN LET len == Len(get_render(cc.cursor_y)) IN
         IF cc.cursor_x < len THEN [cc EXCEPT !.cursor_x = cc.cursor_x + 1]
         ELSE IF cc.cursor_x = len
              THEN [cc EXCEPT !.cursor_y = cc.cursor_y + 1, !.cursor_x = 0]
              ELSE cc
    ELSE cc

\* Mutation of move_end: End goes to the length of the raw line.
move_end_raw_length(cc) ==
    IF cc.cursor_y < number_of_rows
    THEN [cc EXCEPT !.cursor_x = Len(get_editor_row(cc.cursor_y).row_content)]
    ELSE cc

\* KeyCode::End
move_end(cc) ==
    IF cc.cursor_y < number_of_rows
    THEN [cc EXCEPT !.cursor_x = Len(get_render(cc.cursor_y))]
    ELSE cc

\* KeyCode::Home
move_home(cc) == [cc EXCEPT !.cursor_x = 0]

\* Mutation of clamp_cursor_x: cursor_x is left as the move set it.
clamp_cursor_x_skipped(cc) == cc

\* The tail of move_cursor: row_len, then cursor_x = min(cursor_x, row_len).
clamp_cursor_x(cc) ==
    LET row_len == IF cc.cursor_y < number_of_rows
                   THEN Len(get_render(cc.cursor_y))
                   ELSE 0
    IN [cc EXCEPT !.cursor_x = Min(cc.cursor_x, row_len)]

move_cursor(cc, direction) ==
    clamp_cursor_x(
        CASE direction = "Up" -> move_up(cc)
          [] direction = "Left" -> move_left(cc)
          [] direction = "Down" -> move_down(cc)
          [] direction = "Right" -> move_right(cc)
          [] direction = "End" -> move_end(cc)
          [] direction = "Home" -> move_home(cc))

\* Mutation of render_x_step: a tab advances render_x by TAB_STOP.
render_x_step_fixed_tab(rx, c) == IF c = TAB THEN rx + TAB_STOP ELSE rx + 1

\* The closure of the fold of get_render_x.
render_x_step(rx, c) ==
    IF c = TAB
    THEN rx + (TAB_STOP - 1) - (rx % TAB_STOP) + 1
    ELSE rx + 1

\* get_render_x: the fold over row_content[..cursor_x].chars().
RECURSIVE render_x_fold(_, _, _)
render_x_fold(chars, i, rx) ==
    IF i > Len(chars) THEN rx
    ELSE render_x_fold(chars, i + 1, render_x_step(rx, chars[i]))

\* The slice row_content[..cursor_x] panics when cursor_x is past the end.
slice_panics(cx, row) == cx > Len(row.row_content)

get_render_x(cx, row) == render_x_fold(SubSeq(row.row_content, 1, cx), 1, 0)

\* scroll panics exactly when its call of get_render_x does.
scroll_panics(cc) ==
    /\ cc.cursor_y < number_of_rows
    /\ slice_panics(cc.cursor_x, get_editor_row(cc.cursor_y))

\* scroll, first part: render_x = 0, then get_render_x when the row exists.
scroll_render_x(cc) ==
    IF cc.cursor_y < number_of_rows
    THEN [cc EXCEPT !.render_x = get_render_x(cc.cursor_x, get_editor_row(cc.cursor_y))]
    ELSE [cc EXCEPT !.render_x = 0]

\* Mutation of scroll_rows: scrolling down puts the cursor one row below the window.
scroll_rows_off_by_one(cc) ==
    LET ro == Min(cc.row_offset, cc.cursor_y) IN
    IF cc.cursor_y >= ro + cc.screen_rows
    THEN [cc EXCEPT !.row_offset = cc.cursor_y - cc.screen_rows]
    ELSE [cc EXCEPT !.row_offset = ro]

\* scroll, second part: row_offset.
scroll_rows(cc) ==
    LET ro == Min(cc.row_offset, cc.cursor_y) IN
    IF cc.cursor_y >= ro + cc.screen_rows
    THEN [cc EXCEPT !.row_offset = cc.cursor_y - cc.screen_rows + 1]
    ELSE [cc EXCEPT !.row_offset = ro]

\* Mutation of scroll_columns: scrolling right puts render_x one column past the window.
scroll_columns_off_by_one(cc) ==
    LET co == Min(cc.column_offset, cc.cursor_x) IN
    IF cc.render_x >= co + cc.screen_columns
    THEN [cc EXCEPT !.column_offset = cc.render_x - cc.screen_columns]
    ELSE [cc EXCEPT !.column_offset = co]

\* scroll, third part: column_offset (the min is taken with cursor_x).
scroll_columns(cc) ==
    LET co == Min(cc.column_offset, cc.cursor_x) IN
    IF cc.render_x >= co + cc.screen_columns
    THEN [cc EXCEPT !.column_offset = cc.render_x - cc.screen_columns + 1]
    ELSE [cc EXCEPT !.column_offset = co]

scroll(cc) == scroll_columns(scroll_rows(scroll_render_x(cc)))

(***************************************************************************)
(* Editor::process_keypress                                                *)
(***************************************************************************)

\* Mutation of page_jump: PageDown jumps to the last row of the window, no min.
page_jump_unclamped(cc, val) ==
    IF val = "PageUp"
    THEN [cc EXCEPT !.cursor_y = cc.row_offset]
    ELSE [cc EXCEPT !.cursor_y = win_size[2] + cc.row_offset - 1]

\* Mutation of page_jump: PageDown jumps to the row after the last one of the window.
page_jump_past_window(cc, val) ==
    IF val = "PageUp"
    THEN [cc EXCEPT !.cursor_y = cc.row_offset]
    ELSE [cc EXCEPT !.cursor_y = Min(win_size[2] + cc.row_offset, number_of_rows)]

\* The PageUp / PageDown arm: the jump of cursor_y.
page_jump(cc, val) ==
    IF val = "PageUp"
    THEN [cc EXCEPT !.cursor_y = cc.row_offset]
    ELSE [cc EXCEPT !.cursor_y = Min(win_size[2] + cc.row_offset - 1, number_of_rows)]

\* (0..n).for_each(|_| move_cursor(direction))
RECURSIVE repeat_move(_, _, _)
repeat_move(cc, direction, n) ==
    IF n = 0 THEN cc ELSE repeat_move(move_cursor(cc, direction), direction, n - 1)

\* The number of single steps the page arm replays: 0..win_size.1.
page_steps == win_size[2]

page_move(cc, val) ==
    repeat_move(page_jump(cc, val), IF val = "PageUp" THEN "Up" ELSE "Down", page_steps)

(***************************************************************************)
(* Output::draw_rows and Output::refresh_screen                            *)
(***************************************************************************)

\* format!("Pound Editor --- Version {}", "3.0.0")
Welcome == <<"P", "o", "u", "n", "d", " ", "E", "d", "i", "t", "o", "r", " ", "-", "-", "-", " ", "V", "e", "r", "s", "i", "o", "n", " ", "3", ".", "0", ".", "0">>

\* Mutation of banner_row: the text is not truncated to the width.
banner_row_untruncated(columns) ==
    LET welcome == Welcome
        padding == (columns - Len(welcome)) \div 2
    IN (IF padding # 0 THEN <<"~">> \o Spaces(padding - 1) ELSE <<>>) \o welcome

\* The banner row: welcome truncated to the width, '~' and padding before it.
banner_row(columns) ==
    LET welcome == IF Len(Welcome) > columns THEN SubSeq(Welcome, 1, columns) ELSE Welcome
        padding == (columns - Len(welcome)) \div 2
    IN (IF padding # 0 THEN <<"~">> \o Spaces(padding - 1) ELSE <<>>) \o welcome

\* Mutation of draw_row: the slice of a document row starts at column 0.
draw_row_from_column_zero(cc, i) ==
    LET file_row == i + cc.row_offset IN
    IF file_row >= number_of_rows
    THEN IF number_of_rows = 0 /\ i = win_size[2] \div 3
         THEN banner_row(win_size[1])
         ELSE <<"~">>
    ELSE LET row == get_render(file_row)
             len == Min(saturating_sub(Len(row), cc.column_offset), win_size[1])
         IN SubSeq(row, 1, len)

\* Mutation of draw_row: the banner is put at half the screen height.
draw_row_banner_at_half(cc, i) ==
    LET file_row == i + cc.row_offset IN
    IF file_row >= number_of_rows
    THEN IF number_of_rows = 0 /\ i = win_size[2] \div 2
         THEN banner_row(win_size[1])
         ELSE <<"~">>
    ELSE LET row == get_render(file_row)
             len == Min(saturating_sub(Len(row), cc.column_offset), win_size[1])
             start == IF len = 0 THEN 0 ELSE cc.column_offset
         IN SubSeq(row, start + 1, start + len)

\* The text draw_rows pushes for screen row i (before the clear and the line break).
draw_row(cc, i) ==
    LET file_row == i + cc.row_offset IN
    IF file_row >= number_of_rows
    THEN IF number_of_rows = 0 /\ i = win_size[2] \div 3
         THEN banner_row(win_size[1])
         ELSE <<"~">>
    ELSE LET row == get_render(file_row)
             len == Min(saturating_sub(Len(row), cc.column_offset), win_size[1])
             start == IF len = 0 THEN 0 ELSE cc.column_offset
         IN SubSeq(row, start + 1, start + len)

draw_rows(cc) == [k \in 1..win_size[2] |-> draw_row(cc, k - 1)]

\* `as u16` of the usize difference a - b (the wrapped difference when a < b).
as_u16_sub(a, b) == (a - b) % 65536

\* Mutation of frame_cursor: the column is taken from cursor_x, not render_x.
frame_cursor_from_cursor_x(cc) ==
    <<as_u16_sub(cc.cursor_x, cc.column_offset), as_u16_sub(cc.cursor_y, cc.row_offset)>>

\* The cursor::MoveTo that ends refresh_screen.
frame_cursor(cc) ==
    <<as_u16_sub(cc.render_x, cc.column_offset), as_u16_sub(cc.cursor_y, cc.row_offset)>>

\* The usize subtractions of refresh_screen overflow (a panic in a build with
\* overflow checks, a wrapped value otherwise).
frame_cursor_overflows(cc) ==
    cc.render_x < cc.column_offset \/ cc.cursor_y < cc.row_offset

(***************************************************************************)
(* The rows each operation looks up with get_render / get_editor_row.      *)
(***************************************************************************)

\* cursor_y after the match of move_cursor, before the clamp.
moved_cursor_y(cc, direction) ==
    CASE direction = "Up" -> saturating_sub(cc.cursor_y, 1)
      [] direction = "Left" ->
            IF cc.cursor_x = 0 /\ cc.cursor_y > 0 THEN cc.cursor_y - 1 ELSE cc.cursor_y
      [] direction = "Down" ->
            IF cc.cursor_y < number_of_rows THEN cc.cursor_y + 1 ELSE cc.cursor_y
      [] direction = "Right" ->
            IF cc.cursor_y < number_of_rows /\ cc.cursor_x = Len(get_render(cc.cursor_y))
            THEN cc.cursor_y + 1 ELSE cc.cursor_y
      [] OTHER -> cc.cursor_y

\* move_cursor: the get_render calls of the Left, Right and End arms and of row_len.
move_cursor_reads(cc, direction) ==
    (CASE direction = "Left" ->
            IF cc.cursor_x = 0 /\ cc.cursor_y > 0 THEN {cc.cursor_y - 1} ELSE {}
       [] direction \in {"Right", "End"} ->
            IF cc.cursor_y < number_of_rows THEN {cc.cursor_y} ELSE {}
       [] OTHER -> {})
    \cup (LET y == moved_cursor_y(cc, direction) IN
          IF y < number_of_rows THEN {y} ELSE {})

\* The page arm: the reads of its single steps.
RECURSIVE repeat_move_reads(_, _, _)
repeat_move_reads(cc, direction, n) ==
    IF n = 0 THEN {}
    ELSE move_cursor_reads(cc, direction)
            \cup repeat_move_reads(move_cursor(cc, direction), direction, n - 1)

page_move_reads(cc, val) ==
    repeat_move_reads(page_jump(cc, val), IF val = "PageUp" THEN "Up" ELSE "Down", page_steps)

\* scroll: get_editor_row(cursor_y) when cursor_y < number_of_rows.
scroll_reads(cc) == IF cc.cursor_y < number_of_rows THEN {cc.cursor_y} ELSE {}

\* draw_rows: get_render(file_row) for the screen rows with file_row < number_of_rows.
draw_rows_reads(cc) ==
    {i + cc.row_offset : i \in {j \in 0..(win_size[2] - 1) : j + cc.row_offset < number_of_rows}}

(***************************************************************************)
(* The program: main, Editor::new, then run() repeated.                    *)
(***************************************************************************)

Init ==
    /\ pc = "main"
    /\ win_size = <<0, 0>>
    /\ row_contents = <<>>
    /\ cursor_controller = CursorController_new(<<0, 0>>)
    /\ frame = <<>>
    /\ term_cursor = <<0, 0>>
    /\ last_key = "none"
    /\ raw_mode = FALSE
    /\ clean_up = FALSE
    /\ cleared = FALSE
    /\ exit_code = -1

\* Mutation of MainStart: the guard is made only after raw mode was entered.
MainStart_guard_after_enable ==
    /\ pc = "main"
    /\ \/ /\ raw_mode' = TRUE
          /\ clean_up' = TRUE
          /\ pc' = "new"
       \/ /\ raw_mode' = FALSE
          /\ clean_up' = FALSE
          /\ pc' = "error"
    /\ UNCHANGED <<editor_vars, frame, term_cursor, cleared, last_key, exit_code>>

\* main: let _clean_up = CleanUp; enable_raw_mode()?  (Ok, or Err returned by `?`).
MainStart ==
    /\ pc = "main"
    /\ clean_up' = TRUE
    /\ \/ /\ raw_mode' = TRUE
          /\ pc' = "new"
       \/ /\ raw_mode' = FALSE
          /\ pc' = "error"
    /\ UNCHANGED <<editor_vars, frame, term_cursor, cleared, last_key, exit_code>>

\* Editor::new -> Output::new: the terminal size is sampled and the file loaded;
\* size().unwrap() or read_to_string(..).expect(..) may panic instead.
EditorNew ==
    /\ pc = "new"
    /\ \/ /\ \E size \in WinSizes, lines \in Files :
                /\ win_size' = size
                /\ cursor_controller' = CursorController_new(size)
                /\ row_contents' = from_file(lines)
          /\ pc' = "refresh"
       \/ /\ pc' = "panic"
          /\ UNCHANGED editor_vars
    /\ UNCHANGED <<frame, term_cursor, cleared, last_key, process_vars>>

\* Output::refresh_screen: scroll, draw_rows, place the cursor, flush (Ok or Err).
RefreshScreen ==
    /\ pc = "refresh"
    /\ last_key' = "none"
    /\ UNCHANGED <<win_size, row_contents, process_vars>>
    /\ IF scroll_panics(cursor_controller)
       THEN /\ pc' = "panic"
            /\ cursor_controller' = [cursor_controller EXCEPT !.render_x = 0]
            /\ UNCHANGED <<frame, term_cursor, cleared>>
       ELSE LET cc == scroll(cursor_controller) IN
            /\ cursor_controller' = cc
            /\ \/ /\ pc' = "key"
                  /\ frame' = draw_rows(cc)
                  /\ term_cursor' = frame_cursor(cc)
                  /\ cleared' = FALSE
               \/ /\ pc' = "error"
                  /\ UNCHANGED <<frame, term_cursor, cleared>>
               \/ /\ frame_cursor_overflows(cc)
                  /\ pc' = "panic"
                  /\ UNCHANGED <<frame, term_cursor, cleared>>

\* process_keypress, read_key()? returns Err: poll or read failed.
ReadKeyError ==
    /\ pc = "key"
    /\ pc' = "error"
    /\ UNCHANGED <<editor_vars, frame, term_cursor, cleared, last_key, process_vars>>

\* process_keypress, Ctrl-Q: return Ok(false), the loop of main ends.
QuitKey ==
    /\ pc = "key"
    /\ pc' = "done"
    /\ last_key' = "Quit"
    /\ UNCHANGED <<editor_vars, frame, term_cursor, cleared, process_vars>>

\* process_keypress, an arrow, Home or End without modifiers.
MoveKey(direction) ==
    /\ pc = "key"
    /\ cursor_controller' = move_cursor(cursor_controller, direction)
    /\ pc' = "refresh"
    /\ last_key' = direction
    /\ UNCHANGED <<win_size, row_contents, frame, term_cursor, cleared, process_vars>>

\* process_keypress, PageUp or PageDown without modifiers.
PageKey(val) ==
    /\ pc = "key"
    /\ cursor_controller' = page_move(cursor_controller, val)
    /\ pc' = "refresh"
    /\ last_key' = val
    /\ UNCHANGED <<win_size, row_contents, frame, term_cursor, cleared, process_vars>>

\* process_keypress, any other key event: the `_ => {}` arm.
OtherKey ==
    /\ pc = "key"
    /\ pc' = "refresh"
    /\ last_key' = "Other"
    /\ UNCHANGED <<editor_vars, frame, term_cursor, cleared, process_vars>>

ProcessKeypress ==
    \/ ReadKeyError
    \/ QuitKey
    \/ \E direction \in Directions : MoveKey(direction)
    \/ \E val \in Pages : PageKey(val)
    \/ OtherKey

\* CleanUp::drop: disable_raw_mode, then clear_screen (Clear(All), MoveTo(0, 0)).
CleanUp_drop ==
    /\ raw_mode' = FALSE
    /\ cleared' = TRUE
    /\ frame' = <<>>
    /\ term_cursor' = <<0, 0>>

\* main ends, by `Ok(())`, by an Err of `?` or by a panic that unwinds: editor is
\* dropped, then _clean_up when main holds it; the process exits with 0, 1 or 101.
MainExit ==
    /\ pc \in {"done", "error", "panic"}
    /\ pc' = "exited"
    /\ exit_code' = (CASE pc = "done" -> 0 [] pc = "error" -> 1 [] pc = "panic" -> 101)
    /\ win_size' = <<0, 0>>
    /\ row_contents' = <<>>
    /\ cursor_controller' = CursorController_new(<<0, 0>>)
    /\ last_key' = "none"
    /\ IF clean_up
       THEN CleanUp_drop
       ELSE UNCHANGED <<raw_mode, cleared, frame, term_cursor>>
    /\ clean_up' = FALSE

Next ==
    \/ MainStart
    \/ EditorNew
    \/ RefreshScreen
    \/ ProcessKeypress
    \/ MainExit

Spec == Init /\ [][Next]_vars

\* Editor::new without a file (EditorRows::new, the None arm) on a terminal of any
\* width from 0 to more than the banner.
EditorNewNoFile ==
    /\ pc = "new"
    /\ \/ /\ \E size \in BannerWinSizes :
                /\ win_size' = size
                /\ cursor_controller' = CursorController_new(size)
          /\ row_contents' = <<>>
          /\ pc' = "refresh"
       \/ /\ pc' = "panic"
          /\ UNCHANGED editor_vars
    /\ UNCHANGED <<frame, term_cursor, cleared, last_key, process_vars>>

NextNoFile ==
    \/ MainStart
    \/ EditorNewNoFile
    \/ RefreshScreen
    \/ ProcessKeypress
    \/ MainExit

\* The program started without a file argument.
SpecBanner == Init /\ [][NextNoFile]_vars

\* Start and loading alone: every file and terminal size, rendered by from_file.
SpecLoad == Init /\ [][MainStart \/ EditorNew]_vars

(***************************************************************************)
(* Properties                                                              *)
(***************************************************************************)

\* The length the clamp of move_cursor compares with: rendered length, 0 past the end.
RowLength(y) == IF y < number_of_rows THEN Len(get_render(y)) ELSE 0

SetMin(S) == CHOOSE m \in S : \A x \in S : m <= x

Max(a, b) == IF a > b THEN a ELSE b

\* C1 - Cursor clamp invariant: after every key, cursor_x is at most the rendered
\* length of row cursor_y when cursor_y < line_count, and 0 when cursor_y = line_count.
C1_CursorClamp ==
    /\ cursor_y < number_of_rows => cursor_x <= Len(get_render(cursor_y))
    /\ cursor_y = number_of_rows => cursor_x = 0

\* An Up or Down has just landed on a row shorter than the old cursor_x (which was
\* at least column_offset), so the clamp cut it.
C1_Witness ==
    /\ pc = "refresh"
    /\ last_key \in {"Up", "Down"}
    /\ cursor_y < number_of_rows
    /\ cursor_x = Len(get_render(cursor_y))
    /\ cursor_x < column_offset

\* C2 - Whenever scroll is about to recompute render_x for a row (cursor_y <
\* line_count), cursor_x is at most the length of the raw line, so the slice
\* row_content[..cursor_x] is in range.
C2_RawIndexInRange ==
    (pc = "refresh" /\ cursor_y < number_of_rows)
        => cursor_x <= Len(get_editor_row(cursor_y).row_content)

\* C3 - Vertical scroll containment: after every scroll,
\* row_offset <= cursor_y < row_offset + screen_rows.
C3_VerticalContainment ==
    pc = "key" => (row_offset <= cursor_y /\ cursor_y < row_offset + screen_rows)

\* The window has been scrolled down and the cursor sits on its last row.
C3_Witness ==
    /\ pc = "key"
    /\ row_offset > 0
    /\ cursor_y = row_offset + screen_rows - 1

C5_MinimalScroll ==
    [][(/\ pc = "refresh" /\ pc' = "key"
        /\ row_offset <= cursor_y /\ cursor_y < row_offset + screen_rows
        /\ column_offset <= render_x' /\ render_x' < column_offset + screen_columns)
       => (row_offset' = row_offset /\ column_offset' = column_offset)]_vars

\* C6 - cursor_y range: 0 <= cursor_y <= line_count in every state, and the jump
\* of PageDown never puts cursor_y above line_count.
C6_CursorYRange ==
    /\ cursor_y \in 0..number_of_rows
    /\ pc = "key" => page_jump(cursor_controller, "PageDown").cursor_y <= number_of_rows

\* Down, Right or PageDown has brought the cursor to the position past the last row.
C6_Witness ==
    /\ pc = "refresh"
    /\ last_key \in {"Down", "Right", "PageDown"}
    /\ number_of_rows > 0
    /\ cursor_y = number_of_rows

\* C7 - Left/Right wrap symmetry: a Right taken at (N, length(rendered(N))), N <
\* line_count, is undone by Left; a Left taken at (N, 0), N > 0, is undone by
\* Right; the scroll between two keys does not move the cursor.
C7_WrapSymmetry ==
    [][/\ (/\ pc = "key" /\ last_key' = "Right"
           /\ cursor_y < number_of_rows /\ cursor_x = Len(get_render(cursor_y)))
            => LET back == move_cursor(cursor_controller', "Left") IN
               /\ cursor_y' = cursor_y + 1 /\ cursor_x' = 0
               /\ back.cursor_y = cursor_y /\ back.cursor_x = cursor_x
       /\ (/\ pc = "key" /\ last_key' = "Left"
           /\ cursor_y > 0 /\ cursor_x = 0)
            => LET back == move_cursor(cursor_controller', "Right") IN
               /\ cursor_y' = cursor_y - 1 /\ cursor_x' = Len(get_render(cursor_y - 1))
               /\ back.cursor_y = cursor_y /\ back.cursor_x = 0
       /\ (pc = "refresh" /\ pc' = "key")
            => (cursor_y' = cursor_y /\ cursor_x' = cursor_x)]_vars

\* A Right has wrapped from the end of a non-empty row onto the next row.
C7_Witness ==
    /\ pc = "refresh"
    /\ last_key = "Right"
    /\ cursor_x = 0
    /\ 0 < cursor_y /\ cursor_y < number_of_rows
    /\ Len(get_render(cursor_y - 1)) > 0

\* C8 - Tab expansion: the rendered length is the output column reached; a
\* non-tab character is copied and advances the column by 1; a tab emits 1..8
\* spaces and leaves the column on a multiple of 8; so rendered is at least as
\* long as raw and the empty line renders empty.
C8_TabExpansion ==
    \A i \in 1..Len(row_contents) :
        LET raw == row_contents[i].row_content
            render == row_contents[i].render
            col(k) == Len(render_row(SubSeq(raw, 1, k)))
        IN /\ Len(render) = render_row_state(raw).index
           /\ Len(render) = col(Len(raw))
           /\ col(0) = 0
           /\ Len(render) >= Len(raw)
           /\ (raw = <<>> => render = <<>>)
           /\ \A k \in 1..Len(raw) :
                /\ SubSeq(render, 1, col(k)) = render_row(SubSeq(raw, 1, k))
                /\ IF raw[k] = TAB
                   THEN /\ col(k) - col(k - 1) \in 1..TAB_STOP
                        /\ col(k) % TAB_STOP = 0
                        /\ \A j \in (col(k - 1) + 1)..col(k) : render[j] = SPACE
                   ELSE /\ col(k) = col(k - 1) + 1
                        /\ render[col(k)] = raw[k]

\* A loaded document has a row whose tab follows another character.
C8_Witness ==
    /\ pc = "refresh"
    /\ \E i \in 1..Len(row_contents) :
          /\ row_contents[i].row_content = <<"a", TAB>>
          /\ Len(row_contents[i].render) = TAB_STOP

PageRows(val) ==
    IF val = "PageUp"
    THEN IF row_offset = 0 THEN {0}
         ELSE Max(row_offset - screen_rows, 0)..(row_offset - 1)
    ELSE LET start == Min(row_offset + screen_rows - 1, number_of_rows) IN
         IF start = number_of_rows THEN {number_of_rows}
         ELSE (start + 1)..Min(row_offset + 2 * screen_rows - 1, number_of_rows)

\* C10 - Page movement: from a state just after scroll, PageUp leaves cursor_y =
\* max(row_offset - screen_rows, 0) and PageDown leaves cursor_y =
\* min(row_offset + 2*screen_rows - 1, line_count); cursor_x becomes the old
\* cursor_x cut to the length of every row stepped onto, so it is at most the
\* length of the destination row; the offsets are not touched.
C10_PageMovement ==
    [][(pc = "key" /\ last_key' \in Pages) =>
        /\ cursor_y' = IF last_key' = "PageUp"
                       THEN Max(row_offset - screen_rows, 0)
                       ELSE Min(row_offset + 2 * screen_rows - 1, number_of_rows)
        /\ cursor_x' = SetMin({cursor_x} \cup {RowLength(r) : r \in PageRows(last_key')})
        /\ cursor_x' <= RowLength(cursor_y')
        /\ row_offset' = row_offset /\ column_offset' = column_offset]_vars

\* A PageDown has moved the cursor a full page and a row, short of the end, onto
\* a row that cut cursor_x.
C10_Witness ==
    /\ pc = "refresh"
    /\ last_key = "PageDown"
    /\ cursor_y = row_offset + 2 * screen_rows - 1
    /\ cursor_y < number_of_rows
    /\ cursor_x < column_offset


\* C11 - Home and End: Home sets cursor_x = 0; End sets cursor_x to the rendered
\* length of row cursor_y when cursor_y < line_count, whatever cursor_x was (also
\* a larger one), and changes nothing when cursor_y = line_count; neither changes
\* cursor_y, row_offset or column_offset.
C11_HomeEnd ==
    [][/\ (pc = "key" /\ last_key' = "Home")
            => cursor_controller' = [cursor_controller EXCEPT !.cursor_x = 0]
       /\ (pc = "key" /\ last_key' = "End")
            => /\ cursor_controller' =
                    IF cursor_y < number_of_rows
                    THEN [cursor_controller EXCEPT !.cursor_x = Len(get_render(cursor_y))]
                    ELSE cursor_controller
               /\ \A stale \in 0..(RowLength(cursor_y) + TAB_STOP) :
                    move_cursor([cursor_controller EXCEPT !.cursor_x = stale], "End").cursor_x
                        = RowLength(cursor_y)]_vars

\* End has moved the cursor to the end of a rendered row that is longer than its
\* raw line.
C11_Witness ==
    /\ pc = "refresh"
    /\ last_key = "End"
    /\ cursor_y < number_of_rows
    /\ cursor_x = Len(get_render(cursor_y))
    /\ cursor_x > Len(get_editor_row(cursor_y).row_content)


\* The last n characters of s.
Suffix(s, n) == SubSeq(s, Len(s) - n + 1, Len(s))

\* C12 - Empty document: with zero lines every key leaves cursor_x, cursor_y,
\* row_offset, column_offset and render_x at 0; every frame has screen_rows rows,
\* the one of index screen_rows / 3 the banner row and every other a single '~';
\* the terminal cursor is put at (0, 0).  At 80 columns the banner is '~', 24
\* spaces and the text, and 24 / 3 = 8.
C12_EmptyDocument ==
    /\ (pc \in {"refresh", "key", "done", "error"} /\ number_of_rows = 0) =>
          /\ cursor_x = 0 /\ cursor_y = 0 /\ render_x = 0
          /\ row_offset = 0 /\ column_offset = 0
          /\ frame # <<>> =>
                /\ Len(frame) = screen_rows
                /\ term_cursor = <<0, 0>>
                /\ \A i \in 0..(screen_rows - 1) :
                      IF i = screen_rows \div 3
                      THEN /\ frame[i + 1] # <<"~">>
                           /\ Len(frame[i + 1]) >= Min(Len(Welcome), screen_columns)
                           /\ Suffix(frame[i + 1], Min(Len(Welcome), screen_columns))
                                = SubSeq(Welcome, 1, Min(Len(Welcome), screen_columns))
                      ELSE frame[i + 1] = <<"~">>
    /\ banner_row(80) = <<"~">> \o Spaces(24) \o Welcome
    /\ 24 \div 3 = 8

\* A PageDown has been handled on an empty document shown on two screen rows.
C12_Witness ==
    /\ pc = "refresh"
    /\ last_key = "PageDown"
    /\ number_of_rows = 0
    /\ screen_rows = 2
    /\ Len(frame) = 2


C16_RowIndexSafety ==
    LET Rows == 0..(number_of_rows - 1) IN
    /\ pc = "key" =>
          /\ (cursor_x = 0 /\ cursor_y > 0) => cursor_y <= number_of_rows
          /\ \A direction \in Directions :
                /\ move_cursor_reads(cursor_controller, direction) \subseteq Rows
                /\ cursor_y = number_of_rows =>
                      cursor_y \notin move_cursor_reads(cursor_controller, direction)
          /\ \A val \in Pages : page_move_reads(cursor_controller, val) \subseteq Rows
          /\ draw_rows_reads(cursor_controller) \subseteq Rows
    /\ pc = "refresh" => scroll_reads(cursor_controller) \subseteq Rows

\* A Left is about to wrap from the position past the last row onto the last row.
C16_Witness ==
    /\ pc = "key"
    /\ number_of_rows > 0
    /\ cursor_y = number_of_rows
    /\ move_cursor_reads(cursor_controller, "Left") = {number_of_rows - 1}
    /\ draw_rows_reads(cursor_controller) # {}


\* C17 - Vertical single steps: Up at cursor_y = 0 and Down at cursor_y =
\* line_count change nothing; otherwise Up takes 1 from cursor_y and Down adds 1;
\* cursor_x becomes min(cursor_x, rendered length of the new row), the length
\* being 0 at line_count; the offsets (and render_x) are untouched.
C17_VerticalSteps ==
    [][(pc = "key" /\ last_key' \in {"Up", "Down"}) =>
        LET y == IF last_key' = "Up"
                 THEN (IF cursor_y = 0 THEN 0 ELSE cursor_y - 1)
                 ELSE (IF cursor_y = number_of_rows THEN cursor_y ELSE cursor_y + 1)
        IN /\ cursor_controller' =
                [cursor_controller EXCEPT !.cursor_y = y,
                                          !.cursor_x = Min(cursor_x, RowLength(y))]
           /\ y = cursor_y => cursor_controller' = cursor_controller]_vars

\* An Up has left the window through its top, onto a row that cut cursor_x.
C17_Witness ==
    /\ pc = "refresh"
    /\ last_key = "Up"
    /\ cursor_y < row_offset
    /\ cursor_x < column_offset


\* C18 - Banner width safety: for an empty document and every screen_columns >=
\* 0 the banner row is padding = (screen_columns - length of the truncated text)
\* / 2 cells, the first of them '~' and the others spaces, followed by the text
\* truncated to screen_columns; the difference is never negative and the row
\* never has more than screen_columns characters.
C18_BannerWidth ==
    (pc = "key" /\ number_of_rows = 0) =>
        LET row == frame[(screen_rows \div 3) + 1]
            text == Min(Len(Welcome), screen_columns)
            padding == (screen_columns - text) \div 2
        IN /\ screen_columns - text >= 0
           /\ Len(row) = padding + text
           /\ Len(row) <= screen_columns
           /\ SubSeq(row, padding + 1, Len(row)) = SubSeq(Welcome, 1, text)
           /\ padding > 0 => row[1] = "~"
           /\ \A k \in 2..padding : row[k] = SPACE

\* A banner cut by a terminal one column narrower than its text.
C18_Witness ==
    /\ pc = "key"
    /\ number_of_rows = 0
    /\ screen_columns = Len(Welcome) - 1
    /\ Len(frame[(screen_rows \div 3) + 1]) = screen_columns


\* C19 - Right-key traversal: from (0, 0) every Right press moves the cursor to
\* the next position in row-major order over the columns 0..length(rendered(r))
\* of each row r, the program is then ready for the next press, so that the
\* position (line_count, 0) is reached after the sum over the rows of
\* (length(rendered(r)) + 1) presses; at (line_count, 0) Right changes nothing.
C19_RightTraversal ==
    [][/\ (pc = "key" /\ last_key' = "Right") =>
            IF cursor_y < number_of_rows
            THEN <<cursor_y', cursor_x'>> =
                    IF cursor_x < RowLength(cursor_y)
                    THEN <<cursor_y, cursor_x + 1>>
                    ELSE <<cursor_y + 1, 0>>
            ELSE cursor_controller' = cursor_controller
       /\ (pc = "refresh" /\ last_key = "Right") => pc' # "panic"]_vars

====
